---- MODULE Spec2Model ----
(***************************************************************************)
(* Charge/discharge optimizer (moat.bms.sched.control).                    *)
(*                                                                         *)
(* Model.__init__/_setup builds one linear program over the forecast,      *)
(* Model.propose / Model.proposed rebind the starting charge, solve and    *)
(* read values back.                                                       *)
(*                                                                         *)
(* Number representation.  The program computes in floating point; the     *)
(* model computes exactly, on integers:                                    *)
(*   - energies and powers are whole units;                                *)
(*   - fractions (SoC, efficiencies, batt_min_soc, batt_max_soc) are held  *)
(*     in hundredths: 50 stands for 0.5;                                   *)
(*   - the coefficients of the battery, DC and AC relations are held in    *)
(*     hundredths as well (a relation "== 0" scales freely): 100 is 1;     *)
(*   - prices, chg_inter, chg_last, the coefficients of the money          *)
(*     relation and the money values are held in thousandths, which makes  *)
(*     the factor 1.001 the exact ratio 1001/1000.                         *)
(* Every division the program performs is performed here too, on inputs    *)
(* chosen so that it is exact.                                             *)
(***************************************************************************)
EXTENDS Integers, Sequences, FiniteSets, TLC

VARIABLES
    hardware,    \* Model.hardware
    data,        \* Model.data: the caller's list of FutureData (mutated by _setup)
    per_hour,    \* Model.per_hour
    chg_inter,   \* Model.chg_inter
    chg_last,    \* Model.chg_last
    built,       \* outcome of Model(...): "none", "ok", "ValueError"
    lp,          \* the solver's variables, constraints, objective, and the handles kept by _setup
    sol,         \* the solver's state after the last Solve(): status and values
    ret,         \* what the last propose() call returned
    gens,        \* the generator objects created by proposed()
    readings     \* the SoC readings the caller passes to propose/proposed (hundredths)

vars == <<hardware, data, per_hour, chg_inter, chg_last, built, lp, sol, ret, gens, readings>>

-----------------------------------------------------------------------------
(* Bounds of the model *)

\* number of generator objects created on one instance
MaxGens == 1
\* longest forecast of the construction specification
MaxN == 2

-----------------------------------------------------------------------------
(* Program constants *)

\* hardware.capacity * 0.05, hardware.capacity * 0.95 (in hundredths)
CapInitMinFrac == 5
CapInitMaxFrac == 95
\* dt.price_buy *= 1.001, as the ratio PerturbNum / PerturbDen
PerturbNum == 1001
PerturbDen == 1000

-----------------------------------------------------------------------------
(* Exact arithmetic helpers *)

\* x * f for a fraction f held in hundredths
Frac(x, f) == (x * f) \div 100

\* a / b, for b > 0
Div(a, b) == a \div b

Max(S) == CHOOSE x \in S : \A y \in S : y <= x

-----------------------------------------------------------------------------
(* FutureData and the hardware model *)

FutureData(pb, ps, ld, pv) ==
    [price_buy |-> pb, price_sell |-> ps, load |-> ld, pv |-> pv]

-----------------------------------------------------------------------------
(* The solver interface used by _setup: variables are named as the program *)
(* names them, f"b{i}" being <<"b", i>>; "b_init" is <<"b_init", 0>>.       *)

NumVar(lb, ub) == [lb |-> lb, ub |-> ub]

Constraint(lb, ub) == [lb |-> lb, ub |-> ub, coef |-> <<>>]

\* (variant: accumulates instead of replacing)
SetCoefficientAdd(c, var, val) ==
    [c EXCEPT !.coef = [v \in DOMAIN c.coef \cup {var} |->
        IF v = var THEN (IF var \in DOMAIN c.coef THEN c.coef[var] ELSE 0) + val
        ELSE c.coef[v]]]

\* MPConstraint.SetCoefficient: sets (replaces) the coefficient of var
SetCoefficient(c, var, val) ==
    [c EXCEPT !.coef = [v \in DOMAIN c.coef \cup {var} |->
        IF v = var THEN val ELSE c.coef[v]]]

Coef(c, var) == IF var \in DOMAIN c.coef THEN c.coef[var] ELSE 0

SetLb(c, v) == [c EXCEPT !.lb = v]
SetUb(c, v) == [c EXCEPT !.ub = v]

-----------------------------------------------------------------------------
(* Model._setup *)

\* lines 96-99: the equal-price perturbation and the arbitrage guard.
\* Yields the (possibly mutated) data point and whether ValueError is raised.
PriceCheck(dt) ==
    IF dt.price_buy = dt.price_sell
    THEN [dt |-> [dt EXCEPT !.price_buy = Div(dt.price_buy * PerturbNum, PerturbDen)],
          raise |-> FALSE]
    ELSE IF dt.price_buy < dt.price_sell
    THEN [dt |-> dt, raise |-> TRUE]
    ELSE [dt |-> dt, raise |-> FALSE]

\* lines 66-81: the solver, the starting battery charge and the empty lists
SetupStart(hw, dat) ==
    [ data        |-> dat,
      vars        |-> (<<"b_init", 0>> :> NumVar(Frac(hw.capacity, CapInitMinFrac),
                                                 Frac(hw.capacity, CapInitMaxFrac))),
      cap_init    |-> <<"b_init", 0>>,
      constr_init |-> SetCoefficient(Constraint(0, 0), <<"b_init", 0>>, 1),
      battery     |-> <<>>,
      dc          |-> <<>>,
      ac          |-> <<>>,
      price       |-> <<>>,
      g_ins       |-> <<>>,
      g_outs      |-> <<>>,
      caps        |-> <<>>,
      moneys      |-> <<>>,
      objective   |-> <<>>,
      maximize    |-> FALSE,
      first       |-> <<>>,
      cap_prev    |-> <<"b_init", 0>> ]

\* (variant: the handles are taken in every period)
FirstHandlesLast(i, st, g_in, g_out, cap, money) ==
    [g_in |-> g_in, g_out |-> g_out, cap |-> cap, money |-> money]

\* lines 172-175: "if not i": the handles propose() reads
FirstHandles(i, st, g_in, g_out, cap, money) ==
    IF i = 0
    THEN [g_in |-> g_in, g_out |-> g_out, cap |-> cap, money |-> money]
    ELSE st.first

\* line 119: the local load variable
LoadVar(dt, ph) == NumVar(dt.load, Div(dt.load, ph))

\* (variant: no lower SoC bound)
CapVarNoFloor(hw) == NumVar(0, Frac(hw.capacity, hw.batt_max_soc))

\* line 104: the future battery charge variable
CapVar(hw) == NumVar(Frac(hw.capacity, hw.batt_min_soc), Frac(hw.capacity, hw.batt_max_soc))

\* lines 133-139: battery charge. old + charge - discharge == new
BatteryRelation(hw, cap_prev, b_chg, b_dis, cap) ==
    SetCoefficient(SetCoefficient(SetCoefficient(SetCoefficient(Constraint(0, 0),
        cap_prev, 100), b_chg, hw.batt_eff_chg), b_dis, -100), cap, -100)

\* lines 141-150: DC power bar. power_in - power_out == zero
DcRelation(hw, s_in, b_dis, i_chg, b_chg, i_dis) ==
    SetCoefficient(SetCoefficient(SetCoefficient(SetCoefficient(SetCoefficient(
        Constraint(0, 0),
        s_in, 100), b_dis, hw.batt_eff_dis), i_chg, hw.inv_eff_chg),
        b_chg, -100), i_dis, -100)

\* lines 152-161: AC power bar. power_in - power_out == zero
AcRelation(hw, g_in, i_dis, g_out, l_out, i_chg) ==
    SetCoefficient(SetCoefficient(SetCoefficient(SetCoefficient(SetCoefficient(
        Constraint(0, 0),
        g_in, 100), i_dis, hw.inv_eff_dis), g_out, -100), l_out, -100), i_chg, -100)

\* lines 163-168: money earned: grid_out*price_sell - grid_in*price_buy == money
PriceRelation(dt, g_out, g_in, money) ==
    SetCoefficient(SetCoefficient(SetCoefficient(Constraint(0, 0),
        g_out, dt.price_sell), g_in, -dt.price_buy), money, -1)

\* lines 101-175: the variables and relations of period i for data point dt
SetupPeriod(i, dt, st, hw, ph) ==
    LET cap   == <<"b", i>>
        b_chg == <<"bc", i>>
        b_dis == <<"bd", i>>
        s_in  == <<"pv", i>>
        i_chg == <<"ic", i>>
        i_dis == <<"id", i>>
        l_out == <<"ld", i>>
        g_in  == <<"gi", i>>
        g_out == <<"go", i>>
        money == <<"pr", i>>
        nv == (cap   :> CapVar(hw))
           @@ (b_chg :> NumVar(0, Div(hw.batt_max_chg, ph)))
           @@ (b_dis :> NumVar(0, Div(hw.batt_max_dis, ph)))
           @@ (s_in  :> NumVar(0, Div(dt.pv, ph)))
           @@ (i_chg :> NumVar(0, Div(hw.inv_max_chg, ph)))
           @@ (i_dis :> NumVar(0, Div(hw.inv_max_dis, ph)))
           @@ (l_out :> LoadVar(dt, ph))
           @@ (g_in  :> NumVar(0, Div(hw.grid_max_in, ph)))
           @@ (g_out :> NumVar(0, Div(hw.grid_max_out, ph)))
           @@ (money :> NumVar("-inf", "inf"))
    IN [st EXCEPT
          !.vars      = nv @@ st.vars,
          !.caps      = Append(st.caps, cap),
          !.g_ins     = Append(st.g_ins, g_in),
          !.g_outs    = Append(st.g_outs, g_out),
          !.moneys    = Append(st.moneys, money),
          !.battery   = Append(st.battery, BatteryRelation(hw, st.cap_prev, b_chg, b_dis, cap)),
          !.dc        = Append(st.dc, DcRelation(hw, s_in, b_dis, i_chg, b_chg, i_dis)),
          !.ac        = Append(st.ac, AcRelation(hw, g_in, i_dis, g_out, l_out, i_chg)),
          !.price     = Append(st.price, PriceRelation(dt, g_out, g_in, money)),
          !.objective = (money :> 1) @@ st.objective,
          !.cap_prev  = cap,
          !.first     = FirstHandles(i, st, g_in, g_out, cap, money)]

\* (variant: the value is added to the coefficient already there)
ChargeValueAdd(st, hw, value) ==
    LET n == Len(st.price)
    IN [st EXCEPT !.price[n] = SetCoefficientAdd(st.price[n], st.caps[n], Div(value, hw.capacity))]

\* _pr.SetCoefficient(cap, value / hardware.capacity) on the latest period's
\* money relation and cap variable (lines 89 and 179)
ChargeValue(st, hw, value) ==
    LET n == Len(st.price)
    IN [st EXCEPT !.price[n] = SetCoefficient(st.price[n], st.caps[n], Div(value, hw.capacity))]

\* lines 177-181
SetupEnd(st, hw, cl) ==
    [(IF Len(st.price) > 0 THEN ChargeValue(st, hw, cl) ELSE st) EXCEPT !.maximize = TRUE]

\* lines 83-99: the while loop, i counted from 0
RECURSIVE SetupLoop(_, _, _, _, _, _)
SetupLoop(i, st, hw, ph, ci, cl) ==
    LET st1 == IF i > 0 THEN ChargeValue(st, hw, ci) ELSE st
    IN IF i >= Len(st1.data)
       THEN [raised |-> FALSE, lp |-> SetupEnd(st1, hw, cl)]
       ELSE LET pc  == PriceCheck(st1.data[i + 1])
                st2 == [st1 EXCEPT !.data[i + 1] = pc.dt]
            IN IF pc.raise
               THEN [raised |-> TRUE, lp |-> st2]
               ELSE SetupLoop(i + 1, SetupPeriod(i, pc.dt, st2, hw, ph), hw, ph, ci, cl)

\* Model._setup as a whole
Setup(hw, dat, ph, ci, cl) == SetupLoop(0, SetupStart(hw, dat), hw, ph, ci, cl)


-----------------------------------------------------------------------------
(* The solver engine: pywraplp.Solver.Solve() on the program built by      *)
(* _setup.  It is an external collaborator; it is modelled as the exact    *)
(* maximisation of the objective over the whole-unit points that satisfy   *)
(* every variable bound and every relation, with a fixed choice among      *)
(* equal optima.  The search follows the chain structure _setup builds     *)
(* (period i is linked to period i-1 by the battery relation only) but     *)
(* reads every bound and coefficient from the program m itself.            *)

\* the predecessor-cap variable of period i (cap_prev at line 136)
PrevCap(m, i) == IF i = 0 THEN m.cap_init ELSE m.caps[i]

\* the values of the starting charge that satisfy its bounds and constr_init
InitValues(m) ==
    { c \in m.vars[m.cap_init].lb .. m.vars[m.cap_init].ub :
        /\ m.constr_init.lb <= Coef(m.constr_init, m.cap_init) * c
        /\ Coef(m.constr_init, m.cap_init) * c <= m.constr_init.ub }

\* the flows of period i that satisfy their bounds, the DC and the AC relation;
\* obj is the share of the objective that hangs on the flows: the objective's
\* coefficient on money times what the money relation gives for grid-out and grid-in
PeriodFlows(m, i) ==
    LET dc == m.dc[i + 1]
        ac == m.ac[i + 1]
        pr == m.price[i + 1]
        R(n) == m.vars[<<n, i>>].lb .. m.vars[<<n, i>>].ub
        dpv == Coef(dc, <<"pv", i>>)
        dbd == Coef(dc, <<"bd", i>>)
        dic == Coef(dc, <<"ic", i>>)
        dbc == Coef(dc, <<"bc", i>>)
        did == Coef(dc, <<"id", i>>)
        agi == Coef(ac, <<"gi", i>>)
        aid == Coef(ac, <<"id", i>>)
        ago == Coef(ac, <<"go", i>>)
        ald == Coef(ac, <<"ld", i>>)
        aic == Coef(ac, <<"ic", i>>)
        pgo == Coef(pr, <<"go", i>>)
        pgi == Coef(pr, <<"gi", i>>)
        ppr == Coef(pr, <<"pr", i>>)
        opr == Coef([coef |-> m.objective], <<"pr", i>>)
        DC == { f \in R("pv") \X R("bd") \X R("ic") \X R("bc") \X R("id") :
                  LET e == dpv * f[1] + dbd * f[2] + dic * f[3] + dbc * f[4] + did * f[5]
                  IN dc.lb <= e /\ e <= dc.ub }
        G  == R("gi") \X R("go") \X R("ld")
    IN { [pv |-> x[1][1], bd |-> x[1][2], ic |-> x[1][3], bc |-> x[1][4], id |-> x[1][5],
          gi |-> x[2][1], go |-> x[2][2], ld |-> x[2][3],
          obj |-> opr * Div(pgo * x[2][2] + pgi * x[2][1], -ppr)] :
         x \in { y \in DC \X G :
                  LET e == agi * y[2][1] + aid * y[1][5] + ago * y[2][2] + ald * y[2][3]
                         + aic * y[1][3]
                  IN ac.lb <= e /\ e <= ac.ub } }

\* the period solutions (flows and cap) of period i from predecessor charge p:
\* the flows joined with the cap values that satisfy the battery relation
PeriodSols(m, i, F, p) ==
    LET bt  == m.battery[i + 1]
        kp  == Coef(bt, PrevCap(m, i)) * p
        kbc == Coef(bt, <<"bc", i>>)
        kbd == Coef(bt, <<"bd", i>>)
        kb  == Coef(bt, <<"b", i>>)
        B   == m.vars[<<"b", i>>].lb .. m.vars[<<"b", i>>].ub
        \* per distinct (charge, discharge) pair, the caps the relation admits
        T   == { t \in { <<f.bc, f.bd>> : f \in F } \X B :
                   LET e == kp + kbc * t[1][1] + kbd * t[1][2] + kb * t[2]
                   IN bt.lb <= e /\ e <= bt.ub }
    IN UNION { { [f |-> f, cap |-> t[2]] : f \in { g \in F : <<g.bc, g.bd>> = t[1] } }
               : t \in T }

\* the value of the money variable of period i that the money relation fixes,
\* given the period's flows and the cap values of all periods
MoneyValue(m, i, f, capv) ==
    LET pr == m.price[i + 1]
        RECURSIVE CapTerms(_)
        CapTerms(j) == IF j = 0 THEN 0
                       ELSE Coef(pr, m.caps[j]) * capv[j] + CapTerms(j - 1)
    IN Div(Coef(pr, <<"go", i>>) * f.go + Coef(pr, <<"gi", i>>) * f.gi + CapTerms(Len(m.caps)),
           -Coef(pr, <<"pr", i>>))

\* the share of the objective that hangs on the value c of period i's cap:
\* over every money relation k, the objective's coefficient on its money
\* times what the relation gives for the cap
ObjCap(m, i, c) ==
    LET RECURSIVE W(_)
        W(k) == IF k = 0 THEN 0
                ELSE Coef([coef |-> m.objective], <<"pr", k - 1>>)
                       * Div(Coef(m.price[k], <<"b", i>>) * c, -Coef(m.price[k], <<"pr", k - 1>>))
                     + W(k - 1)
    IN W(Len(m.price))

\* best continuation from period i with predecessor charge p:
\* [ok, val, path], path the period solutions of periods i..N-1.
\* F is the sequence of the periods' flow sets.
RECURSIVE Best(_, _, _, _)
Best(m, F, i, p) ==
    IF i >= Len(m.caps) THEN [ok |-> TRUE, val |-> 0, path |-> <<>>]
    ELSE LET S    == PeriodSols(m, i, F[i + 1], p)
             next == { <<c, Best(m, F, i + 1, c), ObjCap(m, i, c)>> : c \in { s.cap : s \in S } }
             Nx(c) == CHOOSE r \in next : r[1] = c
             OK   == { <<s, s.f.obj + Nx(s.cap)[3] + Nx(s.cap)[2].val>> :
                       s \in { t \in S : Nx(t.cap)[2].ok } }
         IN IF OK = {} THEN [ok |-> FALSE, val |-> 0, path |-> <<>>]
            ELSE LET bv  == Max({ r[2] : r \in OK })
                     top == (CHOOSE r \in OK : r[2] = bv)[1]
                 IN [ok |-> TRUE, val |-> bv, path |-> <<top>> \o Nx(top.cap)[2].path]

RECURSIVE FlowSets(_, _)
FlowSets(m, k) == IF k = 0 THEN <<>> ELSE Append(FlowSets(m, k - 1), PeriodFlows(m, k - 1))

\* the assignment of every variable of m for a starting charge and a path
Assignment(m, c0, path) ==
    LET capv == [j \in 1..Len(path) |-> path[j].cap]
        RECURSIVE Upto(_)
        Upto(k) ==
            IF k = 0 THEN (m.cap_init :> c0)
            ELSE LET i == k - 1
                     f == path[k].f
                 IN (<<"b", i>> :> path[k].cap) @@ (<<"bc", i>> :> f.bc) @@ (<<"bd", i>> :> f.bd)
                    @@ (<<"pv", i>> :> f.pv) @@ (<<"ic", i>> :> f.ic) @@ (<<"id", i>> :> f.id)
                    @@ (<<"ld", i>> :> f.ld) @@ (<<"gi", i>> :> f.gi) @@ (<<"go", i>> :> f.go)
                    @@ (<<"pr", i>> :> MoneyValue(m, i, f, capv)) @@ Upto(k - 1)
    IN Upto(Len(path))

\* Solve(): the result status and, when optimal, the solution values
Solve(m) ==
    LET F    == FlowSets(m, Len(m.caps))
        b    == { <<c, Best(m, F, 0, c)>> : c \in InitValues(m) }
        OK   == { r \in b : r[2].ok }
    IN IF OK = {} THEN [status |-> "INFEASIBLE", value |-> <<>>]
       ELSE LET bv == Max({ r[2].val : r \in OK })
                r0 == CHOOSE r \in OK : r[2].val = bv
            IN [status |-> "OPTIMAL", value |-> Assignment(m, r0[1], r0[2].path)]

\* MPVariable.solution_value(): the value of the last solve; with no solution
\* the variable reads 0
solution_value(s, var) ==
    IF s.status = "OPTIMAL" THEN s.value[var] ELSE 0


-----------------------------------------------------------------------------
(* Inputs *)

Hardware(min_soc, max_soc, eff, lim, grid_in) ==
    [ capacity     |-> 20,
      batt_min_soc |-> min_soc, batt_max_soc |-> max_soc,
      batt_max_chg |-> lim,     batt_max_dis |-> lim,
      batt_eff_chg |-> eff,     batt_eff_dis |-> eff,
      inv_max_chg  |-> lim,     inv_max_dis  |-> lim,
      inv_eff_chg  |-> eff,     inv_eff_dis  |-> eff,
      grid_max_in  |-> grid_in, grid_max_out |-> 2 ]

\* the configurations the dispatch operations are explored on:
\*   surplus PV, from a charge below and inside the SoC band;
\*   two periods with charge valuations;
\*   lossy hardware;
\*   full SoC band, with readings at both ends of [0,1];
\*   no grid import (the load hangs on the battery);
\*   two periods per hour without and with load
Scenarios ==
    { [hw |-> Hardware(10, 90, 100, 2, 2), ph |-> 1, ci |-> 0, cl |-> 0,
       data |-> <<FutureData(3000, 1000, 1, 2)>>, socs |-> {5, 50}],
      [hw |-> Hardware(10, 90, 100, 1, 2), ph |-> 1, ci |-> 20000, cl |-> 40000,
       data |-> <<FutureData(2000, 1000, 1, 0), FutureData(1000, 1000, 0, 1)>>,
       socs |-> {10, 50}],
      [hw |-> Hardware(10, 90, 50, 2, 2), ph |-> 1, ci |-> 0, cl |-> 20000,
       data |-> <<FutureData(2000, 1000, 1, 0)>>, socs |-> {10, 90}],
      [hw |-> Hardware(0, 100, 100, 2, 2), ph |-> 1, ci |-> 0, cl |-> 0,
       data |-> <<FutureData(2000, 1000, 0, 0)>>, socs |-> {0, 50}],
      [hw |-> Hardware(0, 100, 100, 2, 2), ph |-> 1, ci |-> 0, cl |-> 0,
       data |-> <<FutureData(2000, 1000, 0, 0)>>, socs |-> {100}],
      [hw |-> Hardware(10, 90, 100, 2, 0), ph |-> 1, ci |-> 0, cl |-> 0,
       data |-> <<FutureData(2000, 1000, 2, 0)>>, socs |-> {10, 50}],
      [hw |-> Hardware(10, 90, 100, 2, 2), ph |-> 2, ci |-> 0, cl |-> 0,
       data |-> <<FutureData(2000, 1000, 0, 2)>>, socs |-> {50}],
      [hw |-> Hardware(10, 90, 100, 2, 2), ph |-> 2, ci |-> 0, cl |-> 0,
       data |-> <<FutureData(2000, 1000, 2, 0)>>, socs |-> {50}] }

\* the forecast points of the construction specification: every order of
\* buy and sell price around zero, without and with load
BuildPoints ==
    { FutureData(pb, ps, ld, 2) : pb \in {-1000, 0, 1000}, ps \in {-1000, 0, 1000}, ld \in {0, 2} }

Forecasts == UNION { [1..n -> BuildPoints] : n \in 1..MaxN }

NoModel == [status |-> "none"]
NotSolved == [status |-> "NOT_SOLVED", value |-> <<>>]
NoReturn == [outcome |-> "none"]

Unbuilt ==
    /\ built = "none"
    /\ lp = NoModel
    /\ sol = NotSolved
    /\ ret = NoReturn
    /\ gens = <<>>

Init ==
    /\ \E s \in Scenarios :
         /\ hardware = s.hw
         /\ data = s.data
         /\ per_hour = s.ph
         /\ chg_inter = s.ci
         /\ chg_last = s.cl
         /\ readings = s.socs
    /\ Unbuilt

InitBuild ==
    /\ hardware = Hardware(10, 90, 100, 2, 2)
    /\ data \in Forecasts
    /\ per_hour \in {1, 2}
    /\ \E v \in {<<0, 0>>, <<20000, 60000>>} : chg_inter = v[1] /\ chg_last = v[2]
    /\ readings = {}
    /\ Unbuilt

-----------------------------------------------------------------------------
(* Operations *)

\* Model(hardware, data, per_hour, chg_inter, chg_last): __init__ and _setup.
\* A ValueError leaves no instance.
Build ==
    /\ built = "none"
    /\ LET r == Setup(hardware, data, per_hour, chg_inter, chg_last)
       IN /\ data' = r.lp.data
          /\ built' = IF r.raised THEN "ValueError" ELSE "ok"
          /\ lp' = IF r.raised THEN NoModel ELSE r.lp
    /\ UNCHANGED <<hardware, per_hour, chg_inter, chg_last, sol, ret, gens, readings>>

\* (variant: the upper bound is left as it was)
SetInitBoundLbOnly(m, hw, charge) ==
    [m EXCEPT !.constr_init = SetLb(m.constr_init, Frac(hw.capacity, charge))]

\* lines 191-193 and 206-208: charge *= capacity; SetLb(charge); SetUb(charge)
SetInitBound(m, hw, charge) ==
    [m EXCEPT !.constr_init =
        SetUb(SetLb(m.constr_init, Frac(hw.capacity, charge)), Frac(hw.capacity, charge))]

\* lines 196-200: the tuple propose() returns
\* lines 196-200: the tuple propose() returns
ProposeTuple(m, s, hw, ph) ==
    << (solution_value(s, m.first.g_in) - solution_value(s, m.first.g_out)) * ph,
       Div(solution_value(s, m.first.cap) * 100, hw.capacity),
       solution_value(s, m.first.money) >>

\* lines 212-217: the k-th tuple (k = 1..N) proposed() yields
ProposedTuple(m, s, hw, ph, k) ==
    << (solution_value(s, m.g_ins[k]) - solution_value(s, m.g_outs[k])) * ph,
       Div(solution_value(s, m.caps[k]) * 100, hw.capacity),
       solution_value(s, m.moneys[k]) >>

\* zip(self.g_ins, self.g_outs, self.caps, self.moneys): its length
ZipLen(m) ==
    LET L == {Len(m.g_ins), Len(m.g_outs), Len(m.caps), Len(m.moneys)}
    IN CHOOSE n \in L : \A k \in L : n <= k

\* alone: the generator's own solve is the solver's latest.  Setting the
\* bound and solving ends that for every other generator that has solved.
Disturb(gs, except) ==
    [j \in 1..Len(gs) |->
        IF j /= except /\ gs[j].pc = "running" THEN [gs[j] EXCEPT !.alone = FALSE] ELSE gs[j]]

\* propose(charge), lines 183-200.  The status Solve() returns is discarded
\* and the tuple is returned whatever it was.  ret records the call: the
\* argument, the tuple, and (for the properties) the discarded status and
\* the solved value of cap_init.
Propose(charge) ==
    /\ built = "ok"
    /\ LET m == SetInitBound(lp, hardware, charge)
           s == Solve(m)
       IN /\ lp' = m
          /\ sol' = s
          /\ ret' = [outcome |-> "returned", charge |-> charge, status |-> s.status,
                     cap_init |-> solution_value(s, m.cap_init),
                     value |-> ProposeTuple(m, s, hardware, per_hour)]
    /\ gens' = Disturb(gens, 0)
    /\ UNCHANGED <<hardware, data, per_hour, chg_inter, chg_last, built, readings>>

\* proposed(charge), line 202: calling a generator function runs none of
\* its body; it only creates the generator object
ProposedCall(charge) ==
    /\ built = "ok"
    /\ Len(gens) < MaxGens
    /\ gens' = Append(gens, [charge |-> charge, pc |-> "created", k |-> 0,
                             alone |-> TRUE, out |-> <<>>])
    /\ UNCHANGED <<hardware, data, per_hour, chg_inter, chg_last, built, lp, sol, ret, readings>>

\* what one yielded element is: the tuple, plus the result status of the
\* solve it is read from
Yielded(m, s, hw, ph, k) ==
    [value |-> ProposedTuple(m, s, hw, ph, k), status |-> s.status]

\* next() on a generator that has not started: lines 206-210, then the
\* first pass of the loop at 212-217 (or StopIteration)
GenStart(g) ==
    /\ g \in 1..Len(gens)
    /\ gens[g].pc = "created"
    /\ LET m == SetInitBound(lp, hardware, gens[g].charge)
           s == Solve(m)
           d == Disturb(gens, g)
       IN /\ lp' = m
          /\ sol' = s
          /\ gens' = IF ZipLen(m) >= 1
                     THEN [d EXCEPT ![g].pc = "running", ![g].k = 1,
                                    ![g].out = <<Yielded(m, s, hardware, per_hour, 1)>>]
                     ELSE [d EXCEPT ![g].pc = "done"]
    /\ UNCHANGED <<hardware, data, per_hour, chg_inter, chg_last, built, ret, readings>>

\* next() on a running generator: the next pass of the loop at 212-217,
\* reading the solver's current values, or StopIteration
GenNext(g) ==
    /\ g \in 1..Len(gens)
    /\ gens[g].pc = "running"
    /\ gens' = IF gens[g].k < ZipLen(lp)
               THEN [gens EXCEPT ![g].k = @ + 1,
                                 ![g].out = Append(@, Yielded(lp, sol, hardware, per_hour,
                                                              gens[g].k + 1))]
               ELSE [gens EXCEPT ![g].pc = "done"]
    /\ UNCHANGED <<hardware, data, per_hour, chg_inter, chg_last, built, lp, sol, ret, readings>>

Next ==
    \/ Build
    \/ \E charge \in readings : Propose(charge)
    \/ \E charge \in readings : ProposedCall(charge)
    \/ \E g \in 1..MaxGens : GenStart(g)
    \/ \E g \in 1..MaxGens : GenNext(g)

Spec == Init /\ [][Next]_vars

\* construction alone, on every forecast up to MaxN points
NextBuild == Build

SpecBuild == InitBuild /\ [][NextBuild]_vars

-----------------------------------------------------------------------------
(* Properties *)

\* every element yielded so far, with its generator
YieldedElements ==
    UNION { { <<g, k>> : k \in 1..Len(gens[g].out) } : g \in 1..Len(gens) }

\* charge * capacity as both bounds of the init-bound relation
BoundFor(charge) == [lb |-> Frac(hardware.capacity, charge), ub |-> Frac(hardware.capacity, charge)]

IsBound(c, charge) == c.lb = BoundFor(charge).lb /\ c.ub = BoundFor(charge).ub

\* C1: after propose(soc), for every soc in [0,1], the solved cap_init equals
\* soc * capacity, and cap_init's own bounds admit that value.
C1_InitBoundFidelity ==
    ret.outcome = "returned" =>
        /\ ret.cap_init = Frac(hardware.capacity, ret.charge)
        /\ lp.vars[lp.cap_init].lb <= Frac(hardware.capacity, ret.charge)
        /\ Frac(hardware.capacity, ret.charge) <= lp.vars[lp.cap_init].ub

\* C2: a tuple is returned by propose, or yielded by proposed, only after a
\* solve that reported an optimal solution; any other status ends the call in
\* SolveFailure.
C2_SolveFailure ==
    /\ ret.outcome = "returned" => ret.status = "OPTIMAL"
    /\ \A e \in YieldedElements : gens[e[1]].out[e[2]].status = "OPTIMAL"

\* C3: the SoC component of every tuple returned by propose or yielded by
\* proposed lies within [batt_min_soc, batt_max_soc].
InBand(t) == hardware.batt_min_soc <= t[2] /\ t[2] <= hardware.batt_max_soc

C3_SocBounds ==
    /\ ret.outcome = "returned" => InBand(ret.value)
    /\ \A e \in YieldedElements : InBand(gens[e[1]].out[e[2]].value)

\* C4: a build that goes through leaves no forecast point whose buy price,
\* after the equal-price perturbation, is strictly below its sell price:
\* with such a point the build fails.
C4_ArbitrageGuard ==
    built = "ok" => \A i \in 1..Len(data) : data[i].price_buy >= data[i].price_sell

\* C5: after a successful build the buy price used as grid-in coefficient of
\* every period's money relation is strictly greater than the sell price used
\* as its grid-out coefficient.
C5_BuyAboveSell ==
    built = "ok" =>
        \A i \in 1..Len(lp.price) :
            -Coef(lp.price[i], lp.g_ins[i]) > Coef(lp.price[i], lp.g_outs[i])

\* C7: in every period, for every periods_per_hour, the lower bound of the
\* load-served variable equals its upper bound.
C7_LoadFixed ==
    built = "ok" =>
        \A i \in 1..Len(lp.caps) :
            lp.vars[<<"ld", i - 1>>].lb = lp.vars[<<"ld", i - 1>>].ub

\* C9: after a build of N >= 1 periods, the money relation of every period
\* before the last carries chg_inter / capacity on its own cap, the last
\* period's carries exactly chg_last / capacity on its own cap, and no money
\* relation carries a coefficient on another period's cap.
C9_ChargeValuation ==
    built = "ok" =>
        /\ Len(lp.price) = Len(data)
        /\ Len(lp.caps) = Len(data)
        /\ \A i \in 1..Len(lp.price) : \A j \in 1..Len(lp.caps) :
              Coef(lp.price[i], lp.caps[j]) =
                  IF j /= i THEN 0
                  ELSE IF i < Len(lp.price) THEN Div(chg_inter, hardware.capacity)
                  ELSE Div(chg_last, hardware.capacity)

\* a two-period horizon with chg_inter, chg_last and their sum all different
C9_Witness ==
    /\ built = "ok"
    /\ Len(lp.price) = 2
    /\ chg_inter /= 0
    /\ chg_last /= chg_inter
    /\ Coef(lp.price[1], lp.caps[1]) = Div(chg_inter, hardware.capacity)
    /\ Coef(lp.price[2], lp.caps[2]) = Div(chg_last, hardware.capacity)

\* C6: for the same horizon and the same soc, the first tuple yielded by
\* proposed(soc) equals the tuple returned by propose(soc).
C6_EntryPointsAgree ==
    ret.outcome = "returned" =>
        \A g \in 1..Len(gens) :
            (gens[g].charge = ret.charge /\ Len(gens[g].out) >= 1)
                => gens[g].out[1].value = ret.value

\* both entry points used with the same soc on a two-period horizon, the solve
\* optimal and the first period importing from the grid
C6_Witness ==
    /\ ret.outcome = "returned"
    /\ ret.status = "OPTIMAL"
    /\ Len(lp.caps) = 2
    /\ ret.value[1] /= 0
    /\ \E g \in 1..Len(gens) :
          /\ gens[g].charge = ret.charge
          /\ Len(gens[g].out) >= 1
          /\ gens[g].out[1].status = "OPTIMAL"
          /\ gens[g].out[1].value = ret.value

\* the generators that yield an element in this step
Yielding(g) ==
    /\ g \in 1..Len(gens)
    /\ Len(gens'[g].out) = Len(gens[g].out) + 1

AtLowerBound ==
    /\ built = "ok"
    /\ per_hour = 1
    /\ \A e \in {hardware.batt_eff_chg, hardware.batt_eff_dis,
                 hardware.inv_eff_chg, hardware.inv_eff_dis} : 0 < e /\ e <= 100
    /\ data[1].pv = 0
    /\ IsBound(lp.constr_init, hardware.batt_min_soc)

Period0Points ==
    UNION { PeriodSols(lp, 0, PeriodFlows(lp, 0), p) : p \in InitValues(lp) }

C10_NoNetBatteryEnergy ==
    AtLowerBound => \A s \in Period0Points : s.f.gi - s.f.go >= data[1].load

\* such a state, solved, with load to serve and points where the battery
\* and the inverter are active
C10_Witness ==
    /\ AtLowerBound
    /\ sol.status = "OPTIMAL"
    /\ data[1].load > 0
    /\ \E s \in Period0Points : s.f.bc > 0 /\ s.f.ic > 0


====
